---- MODULE Spec2Model ----
(***************************************************************************)
(* A model of two modules of the engine:                                   *)
(*   - SubContextView (the open data context viewport component): its      *)
(*     frame-driven texture upload timer and its SHOW_ALL content scaling; *)
(*   - AssetLibrary (cocos/core/assets/asset-library.ts): loadAsset,       *)
(*     loadJson, queryAssetInfo, getAssetByUuid and init.                  *)
(* JavaScript numbers that carry sizes are modelled as binary floating     *)
(* point values with round-to-nearest-even at a reduced precision; clock   *)
(* values are whole milliseconds and the fps values divide 1000, so the    *)
(* timer arithmetic of the model is exact in binary64 as well.             *)
(***************************************************************************)
EXTENDS Integers, Sequences, FiniteSets, TLC

(***************************************************************************)
(* Bounds of the model.                                                    *)
(***************************************************************************)
\* significand bits of the modelled floating point format (binary64 has 53)
Precision == 4
\* the clock (performance.now(), in ms) is observed up to this value
MaxNow == 12
\* longest time between two observations of the clock
MaxStep == 3
\* latest construction time of the component
MaxStart == 1
\* loadAsset / loadJson calls made in one behaviour
MaxRequests == 2
\* entries of the rawAssets option of one init call
MaxRaw == 2

(***************************************************************************)
(* Floating point: a positive value is <<m, e>> = m * 2^e with             *)
(* 2^(Precision-1) <= m < 2^Precision.  Overflow and underflow are out of  *)
(* reach of the sizes of the model.                                        *)
(***************************************************************************)
RECURSIVE Pow2(_)
Pow2(n) == IF n = 0 THEN 1 ELSE 2 * Pow2(n - 1)

MantLo == Pow2(Precision - 1)
MantHi == Pow2(Precision)

\* round the exact quotient num / den (den > 0) to the nearest integer,
\* ties to even
RoundNearestEven(num, den) ==
    LET q == num \div den
        r == num % den
    IN  IF 2 * r > den THEN q + 1
        ELSE IF 2 * r < den THEN q
        ELSE IF q % 2 = 0 THEN q ELSE q + 1

\* renormalise a rounded significand that reached 2^Precision
Renorm(m, e) == IF m = MantHi THEN <<MantLo, e + 1>> ELSE <<m, e>>

RECURSIVE NormUp(_, _)
NormUp(m, e) == IF m >= MantLo THEN <<m, e>> ELSE NormUp(2 * m, e - 1)

\* the float of a whole number 1 <= n < 2^Precision (exactly representable)
FromInt(n) == NormUp(n, 0)

\* a * b of JavaScript numbers
FMul(a, b) ==
    LET prod == a[1] * b[1]
    IN  IF prod >= MantLo * MantHi
        THEN Renorm(RoundNearestEven(prod, MantHi), a[2] + b[2] + Precision)
        ELSE Renorm(RoundNearestEven(prod, MantLo), a[2] + b[2] + Precision - 1)

\* a / b of JavaScript numbers
FDiv(a, b) ==
    IF a[1] >= b[1]
    THEN Renorm(RoundNearestEven(a[1] * MantLo, b[1]), a[2] - b[2] - (Precision - 1))
    ELSE Renorm(RoundNearestEven(a[1] * MantHi, b[1]), a[2] - b[2] - Precision)

\* a > b, a = b, a <= b of JavaScript numbers (positive, normalised)
FGt(a, b) == \/ a[2] > b[2]
             \/ a[2] = b[2] /\ a[1] > b[1]
FEq(a, b) == a = b
FLe(a, b) == ~FGt(a, b)

\* m1 * 2^e1 = m2 * 2^e2 for positive integers m1, m2 < 2^(2*Precision)
ScaledEq(m1, e1, m2, e2) ==
    IF e1 >= e2
    THEN e1 - e2 <= 2 * Precision /\ m1 * Pow2(e1 - e2) = m2
    ELSE e2 - e1 <= 2 * Precision /\ m2 * Pow2(e2 - e1) = m1

\* w1 : h1 = w2 : h2 as exact ratios, i.e.  w1 * h2 = w2 * h1
SameRatio(w1, h1, w2, h2) ==
    ScaledEq(w1[1] * h2[1], w1[2] + h2[2], w2[1] * h1[1], w2[2] + h1[2])

(***************************************************************************)
(* State of the SubContextView component and of its host.                  *)
(***************************************************************************)
VARIABLES
    \* ---- the host: window.__globalAdapter, the clock, the shared canvas ----
    adapter,          \* "none" | "noContext" | "noSystemInfo" | "full"
    now,              \* performance.now(), in ms
    canvas,           \* <<width, height>> of openDataContext.canvas
    \* ---- SubContextView fields ----
    _fps,
    _updatedTime,
    _updateInterval,
    _openDataContext, \* FALSE is null
    _designResolutionSize,
    enabled,
    loaded,           \* onLoad has run
    image,            \* _imageAsset's data: "empty" | "canvas" (the shared canvas)
    texture,          \* <<width, height>> of _imageAsset._texture
    listening,        \* the node events are registered
    nodeSize,         \* <<width, height>> of the node's UITransform
    contentSize,      \* <<width, height>> of the content's UITransform
    \* ---- observations ----
    lastCall,         \* what the update() call that just returned did
    frameUploads,     \* <<clock, interval>> of the last two frame-driven uploads
                      \* since fps was set
    lastView          \* whether the last node event (or onLoad) rescaled the
                      \* content, and the content size it found

viewVars == <<adapter, now, canvas, _fps, _updatedTime, _updateInterval,
              _openDataContext, _designResolutionSize, enabled, loaded, image,
              texture, listening, nodeSize, contentSize, lastCall, frameUploads,
              lastView>>


(***************************************************************************)
(* State of the AssetLibrary module, of the loader it drives and of the    *)
(* build it runs in.                                                       *)
(***************************************************************************)
VARIABLES
    \* ---- the build: internal:constants ----
    build,            \* [EDITOR, TEST, BUILD]
    \* ---- module state of asset-library.ts ----
    _libraryBase,
    _rawAssetsBase,
    _uuidToRawAsset,  \* uuid -> RawAssetEntry, a map without a prototype
    _uuidToAsset,     \* uuid -> asset, a plain object
    \* ---- the loader pipeline, the timer queue, the editor ----
    loading,          \* ids of the legacyCC.loader.load calls not yet completed
    tickQueue,        \* the calls callInNextTick has scheduled
    removedItems,     \* ids whose item loadJson removed from the loader
    clearedUuid,      \* assets whose _uuid loadJson has set to ''
    assetTables,      \* legacyCC.loader._assetTables: the entries added
    editorPending,    \* uuids EditorExtends.Asset.queryAssetInfo was asked for
    \* ---- observations ----
    requests,         \* the loadAsset / loadJson calls made, by id
    completions,      \* by id: what the loader reported, <<>> before it does
    calls,            \* by id: the calls of the callback, in order
    threw,            \* ids whose completion handler threw
    offered,          \* uuid -> the last rawAssets entry with a known class
                      \* that an init call was given for it
    lastQuery         \* what the query that just returned did

libVars == <<build, _libraryBase, _rawAssetsBase, _uuidToRawAsset, _uuidToAsset,
             loading, tickQueue, removedItems, clearedUuid, assetTables,
             editorPending, requests, completions, calls, threw, offered,
             lastQuery>>

vars == <<viewVars, libVars>>

\* fps values whose interval 1000 / fps is a whole number of milliseconds
FpsValues == {250, 500, 1000}
\* _designResolutionSize values (a serialized property)
DesignSizes == {<<2, 3>>, <<0, 3>>}
\* sizes the open data context may give its canvas
CanvasSizes == {<<2, 3>>, <<0, 3>>}
\* whole widths and heights drawn for the node and the content (each
\* below 2^Precision, so exactly representable)
Dims == {1, 2, 3, 5, 13}
FSizes == {<<FromInt(w), FromInt(h)>> : w \in Dims, h \in Dims}
NoCall == [op |-> "none", uploaded |-> FALSE, timerKept |-> TRUE]
NoView == [ran |-> FALSE, before |-> <<>>]

\* window.__globalAdapter && __globalAdapter.getOpenDataContext
HasGetOpenDataContext == adapter \in {"noSystemInfo", "full"}
\* __globalAdapter && __globalAdapter.getSystemInfoSync
HasGetSystemInfoSync == adapter \in {"noContext", "full"}

\* width and height of an ImageAsset: those of its data
ImageSize(img, cv) == IF img = "canvas" THEN cv ELSE <<0, 0>>

InitView ==
    /\ adapter \in {"none", "noContext", "noSystemInfo", "full"}
    /\ now \in 0 .. MaxStart
    /\ canvas = <<0, 0>>
    /\ _fps \in FpsValues
    /\ _updatedTime = now
    /\ _updateInterval = 0
    /\ _openDataContext = FALSE
    /\ _designResolutionSize \in DesignSizes
    /\ enabled = TRUE
    /\ loaded = FALSE
    /\ image = "empty"
    /\ texture = <<0, 0>>
    /\ listening = FALSE
    /\ nodeSize \in FSizes
    /\ contentSize \in FSizes
    /\ lastCall = NoCall
    /\ frameUploads = <<>>
    /\ lastView = NoView

(***************************************************************************)
(* SubContextView._updateSubContextView: the content size it leaves, given *)
(* the context ctx it runs with.                                           *)
(***************************************************************************)
ViewRuns(ctx) == ctx /\ HasGetSystemInfoSync

\* a variant of the scale of _updateSubContextView with the comparison turned
ShowAllScaleLarger(node, content) ==
    LET scaleX == FDiv(node[1], content[1])
        scaleY == FDiv(node[2], content[2])
    IN  IF FGt(scaleX, scaleY) THEN scaleX ELSE scaleY

\* let scale = scaleX > scaleY ? scaleY : scaleX
ShowAllScale(node, content) ==
    LET scaleX == FDiv(node[1], content[1])
        scaleY == FDiv(node[2], content[2])
    IN  IF FGt(scaleX, scaleY) THEN scaleY ELSE scaleX

ScaledContent(node, content) ==
    LET scale == ShowAllScale(node, content)
    IN  <<FMul(content[1], scale), FMul(content[2], scale)>>

\* the effect of one call of _updateSubContextView on contentSize, lastView
_updateSubContextView(ctx, node) ==
    IF ViewRuns(ctx)
    THEN /\ contentSize' = ScaledContent(node, contentSize)
         /\ lastView' = [ran |-> TRUE, before |-> contentSize]
    ELSE /\ contentSize' = contentSize
         /\ lastView' = NoView

(***************************************************************************)
(* SubContextView._updateSubContextTexture: TRUE when it reaches           *)
(* uploadData, and the texture it leaves.                                  *)
(***************************************************************************)
TextureUploads ==
    /\ _openDataContext
    /\ ~ (ImageSize(image, canvas)[1] <= 0 \/ ImageSize(image, canvas)[2] <= 0)

\* img.reset(sharedCanvas) makes the image's size the canvas's, so the
\* texture is re-created only if the canvas still exceeds it
TextureAfterUpdate ==
    IF TextureUploads
       /\ (\/ canvas[1] > ImageSize("canvas", canvas)[1]
           \/ canvas[2] > ImageSize("canvas", canvas)[2])
    THEN canvas
    ELSE texture

(***************************************************************************)
(* Operations of SubContextView.                                           *)
(***************************************************************************)
onLoad ==
    /\ ~loaded
    /\ loaded' = TRUE
    /\ IF HasGetOpenDataContext
       THEN /\ _updateInterval' = 1000 \div _fps
            /\ _openDataContext' = TRUE
            /\ canvas' = _designResolutionSize        \* _initSharedCanvas
            /\ image' = "canvas"                      \* _initContentNode
            /\ texture' = _designResolutionSize
            /\ _updateSubContextView(TRUE, nodeSize)
            /\ UNCHANGED enabled
       ELSE /\ enabled' = FALSE
            /\ UNCHANGED <<_updateInterval, _openDataContext, canvas, image,
                           texture, contentSize, lastView>>
    /\ lastCall' = NoCall
    /\ UNCHANGED <<adapter, now, _fps, _updatedTime, _designResolutionSize,
                   listening, nodeSize, frameUploads>>
    /\ UNCHANGED libVars

\* the component becomes (or, right after onLoad, is) enabled: onEnable
onEnable ==
    /\ loaded /\ ~listening
    /\ enabled' = TRUE
    /\ listening' = TRUE
    /\ lastCall' = NoCall
    /\ UNCHANGED <<adapter, now, canvas, _fps, _updatedTime, _updateInterval,
                   _openDataContext, _designResolutionSize, loaded, image,
                   texture, nodeSize, contentSize, frameUploads,
                   lastView>>
    /\ UNCHANGED libVars

\* the component is disabled: onDisable
onDisable ==
    /\ loaded /\ listening
    /\ enabled' = FALSE
    /\ listening' = FALSE
    /\ lastCall' = NoCall
    /\ UNCHANGED <<adapter, now, canvas, _fps, _updatedTime, _updateInterval,
                   _openDataContext, _designResolutionSize, loaded, image,
                   texture, nodeSize, contentSize, frameUploads,
                   lastView>>
    /\ UNCHANGED libVars

\* set fps (value)
SetFps(value) ==
    /\ _fps # value
    /\ _fps' = value
    /\ _updateInterval' = 1000 \div value
    /\ frameUploads' = <<>>
    /\ lastCall' = NoCall
    /\ UNCHANGED <<adapter, now, canvas, _updatedTime, _openDataContext,
                   _designResolutionSize, enabled, loaded, image, texture,
                   listening, nodeSize, contentSize, lastView>>
    /\ UNCHANGED libVars

\* time passes without a frame
Tick(d) ==
    /\ now + d <= MaxNow
    /\ now' = now + d
    /\ lastCall' = NoCall
    /\ UNCHANGED <<adapter, canvas, _fps, _updatedTime, _updateInterval,
                   _openDataContext, _designResolutionSize, enabled, loaded,
                   image, texture, listening, nodeSize, contentSize, frameUploads, lastView>>
    /\ UNCHANGED libVars

\* the open data context resizes its canvas
CanvasResize(size) ==
    /\ _openDataContext
    /\ canvas # size
    /\ canvas' = size
    /\ lastCall' = NoCall
    /\ UNCHANGED <<adapter, now, _fps, _updatedTime, _updateInterval,
                   _openDataContext, _designResolutionSize, enabled, loaded,
                   image, texture, listening, nodeSize, contentSize, frameUploads, lastView>>
    /\ UNCHANGED libVars

LastTwo(s) == IF Len(s) > 2 THEN Tail(s) ELSE s

\* update(dt) with dt defined, called by the engine on the frame that
\* starts d ms after the last observation of the clock
UpdateFrame(d) ==
    /\ loaded /\ enabled /\ listening
    /\ now + d <= MaxNow
    /\ now' = now + d
    /\ LET deltaTime == now' - _updatedTime
       IN  IF deltaTime >= _updateInterval
           THEN /\ _updatedTime' = _updatedTime + _updateInterval
                /\ texture' = TextureAfterUpdate
                /\ lastCall' = [op |-> "frame", uploaded |-> TextureUploads,
                                timerKept |-> (_updatedTime' = _updatedTime)]
                /\ frameUploads' =
                       IF TextureUploads
                       THEN LastTwo(Append(frameUploads, <<now', _updateInterval>>))
                       ELSE frameUploads
           ELSE /\ lastCall' = [op |-> "frame", uploaded |-> FALSE,
                                timerKept |-> TRUE]
                /\ UNCHANGED <<_updatedTime, texture, frameUploads>>
    /\ UNCHANGED <<adapter, canvas, _fps, _updateInterval, _openDataContext,
                   _designResolutionSize, enabled, loaded, image, listening,
                   nodeSize, contentSize, lastView>>
    /\ UNCHANGED libVars

\* a variant of update() that lacks the early return of the manual call
\* and goes on to the timer
UpdateManualThroughTimer ==
    /\ IF now - _updatedTime >= _updateInterval
       THEN /\ _updatedTime' = _updatedTime + _updateInterval
            /\ texture' = TextureAfterUpdate
            /\ lastCall' = [op |-> "manual", uploaded |-> TextureUploads,
                            timerKept |-> (_updatedTime' = _updatedTime)]
       ELSE /\ lastCall' = [op |-> "manual", uploaded |-> FALSE, timerKept |-> TRUE]
            /\ UNCHANGED <<_updatedTime, texture>>
    /\ UNCHANGED <<adapter, now, canvas, _fps, _updateInterval,
                   _openDataContext, _designResolutionSize, enabled, loaded,
                   image, listening, nodeSize, contentSize, frameUploads,
                   lastView>>
    /\ UNCHANGED libVars

\* update() with dt undefined, called by the user
UpdateManual ==
    /\ texture' = TextureAfterUpdate
    /\ UNCHANGED <<adapter, now, canvas, _fps, _updatedTime, _updateInterval,
                   _openDataContext, _designResolutionSize, enabled, loaded,
                   image, listening, nodeSize, contentSize, frameUploads,
                   lastView>>
    /\ lastCall' = [op |-> "manual", uploaded |-> TextureUploads,
                    timerKept |-> (/\ _updatedTime' = _updatedTime
                                   /\ _updateInterval' = _updateInterval)]
    /\ UNCHANGED libVars

\* the node's size is set: SIZE_CHANGED reaches _updateSubContextView when
\* the node events are registered
NodeSizeChanged(size) ==
    /\ nodeSize # size
    /\ nodeSize' = size
    /\ IF listening
       THEN _updateSubContextView(_openDataContext, size)
       ELSE contentSize' = contentSize /\ lastView' = NoView
    /\ lastCall' = NoCall
    /\ UNCHANGED <<adapter, now, canvas, _fps, _updatedTime, _updateInterval,
                   _openDataContext, _designResolutionSize, enabled, loaded,
                   image, texture, listening, frameUploads>>
    /\ UNCHANGED libVars

\* the node moves: TRANSFORM_CHANGED reaches _updateSubContextView
NodeTransformChanged ==
    /\ listening
    /\ _updateSubContextView(_openDataContext, nodeSize)
    /\ lastCall' = NoCall
    /\ UNCHANGED <<adapter, now, canvas, _fps, _updatedTime, _updateInterval,
                   _openDataContext, _designResolutionSize, enabled, loaded,
                   image, texture, listening, nodeSize, frameUploads>>
    /\ UNCHANGED libVars

(***************************************************************************)
(* JavaScript values of the AssetLibrary model.  A string that is sliced   *)
(* or encoded is a sequence of characters; messages are strings.           *)
(***************************************************************************)
Null == [tag |-> "null"]
Undefined == [tag |-> "undefined"]
Err(msg) == [tag |-> "Error", message |-> msg]
Str(chars) == [type |-> "string", chars |-> chars]
NotAString == [type |-> "number"]

FreshObject == [tag |-> "object", id |-> "fresh"]
GivenObject == [tag |-> "object", id |-> "given"]

\* the assets the loader may deliver: a plain asset and a scene asset
Assets == {[tag |-> "asset", name |-> "a1", scene |-> FALSE],
           [tag |-> "asset", name |-> "s1", scene |-> TRUE]}
\* the errors the loader may report
LoaderErrors == {Err("boom")}

\* internal:constants of a runtime preview, a runtime build, the editor
\* and the editor's test run
Builds == {[EDITOR |-> FALSE, TEST |-> FALSE, BUILD |-> FALSE],
           [EDITOR |-> FALSE, TEST |-> FALSE, BUILD |-> TRUE],
           [EDITOR |-> TRUE, TEST |-> FALSE, BUILD |-> FALSE],
           [EDITOR |-> TRUE, TEST |-> TRUE, BUILD |-> FALSE]}

UuidAbc == <<"a", "b", "c">>
UuidSub == <<"a", "/", "@", "f">>
UuidValueOf == <<"v", "a", "l", "u", "e", "O", "f">>
Uuids == {UuidAbc, UuidSub, UuidValueOf}

EmptyMap == [k \in {} |-> Null]
MapSet(map, key, value) ==
    [k \in DOMAIN map \cup {key} |-> IF k = key THEN value ELSE map[k]]

\* property names every plain object inherits from Object.prototype (among
\* the strings of the model)
ObjectPrototypeKeys == {UuidValueOf}

\* obj[key] of a plain object ({})
PlainGet(obj, key) ==
    IF key \in DOMAIN obj THEN obj[key]
    ELSE IF key \in ObjectPrototypeKeys THEN [tag |-> "function", name |-> key]
    ELSE Undefined

\* map[key] of a map made by createMap(true)
DictGet(map, key) == IF key \in DOMAIN map THEN map[key] ELSE Undefined

\* isScene (asset)
isScene(asset) == asset # Null /\ asset.scene

(***************************************************************************)
(* Collaborators of asset-library.ts that live in other files.             *)
(***************************************************************************)
\* callInNextTick (callback, p1, p2): the call is queued for a later tick
callInNextTick(queue, id, hasCallback, p1, p2) ==
    IF hasCallback
    THEN Append(queue, [id |-> id, error |-> p1, asset |-> p2])
    ELSE queue

\* decodeUuid: a string that is not a 22 character compressed uuid is
\* returned as it is (every uuid of the model is shorter)
decodeUuid(base64) == IF Len(base64) # 22 THEN base64 ELSE <<>>

\* _getClassById: the class registry
_getClassById(typeId) ==
    CASE typeId = "cc.Asset" -> "Asset"
      [] typeId = "cc.Texture2D" -> "Texture2D"
      [] typeId = "cc.RawFile" -> "RawFile"
      [] OTHER -> "none"

\* isChildClassOf (subclass, superclass), for superclass Asset
isChildClassOfAsset(class) == class \in {"Asset", "Texture2D"}

\* legacyCC.path.stripSep: drops one trailing separator
stripSep(path) ==
    IF Len(path) > 0 /\ path[Len(path)] \in {"/", "\\"}
    THEN SubSeq(path, 1, Len(path) - 1)
    ELSE path

\* encodeURIComponent of one character
EncodeChar(c) ==
    CASE c = "/" -> <<"%", "2", "F">>
      [] c = "@" -> <<"%", "4", "0">>
      [] c = "\\" -> <<"%", "5", "C">>
      [] c = ":" -> <<"%", "3", "A">>
      [] OTHER -> <<c>>

RECURSIVE encodeURIComponent(_)
encodeURIComponent(s) ==
    IF s = <<>> THEN <<>> ELSE EncodeChar(Head(s)) \o encodeURIComponent(Tail(s))

(***************************************************************************)
(* String helpers of asset-library.ts.                                     *)
(***************************************************************************)
\* s.split(sep)
RECURSIVE Split(_, _)
Split(s, sep) ==
    IF \A i \in 1 .. Len(s) : s[i] # sep
    THEN <<s>>
    ELSE LET i == CHOOSE k \in 1 .. Len(s) :
                      s[k] = sep /\ \A j \in 1 .. k - 1 : s[j] # sep
         IN  <<SubSeq(s, 1, i - 1)>> \o Split(SubSeq(s, i + 1, Len(s)), sep)

\* parts.join(sep)
RECURSIVE Join(_, _)
Join(parts, sep) ==
    IF Len(parts) = 1 THEN parts[1]
    ELSE parts[1] \o <<sep>> \o Join(Tail(parts), sep)

\* uuid.split('@').map(encodeURIComponent).join('@')
EncodeUuid(uuid) ==
    LET names == Split(uuid, "@")
    IN  Join([i \in 1 .. Len(names) |-> encodeURIComponent(names[i])], "@")

\* s.slice(0, 2)
Slice02(s) == SubSeq(s, 1, IF Len(s) < 2 THEN Len(s) ELSE 2)

\* libraryPath.replace(/\\/g, '/')
ReplaceBackslashes(s) == [i \in 1 .. Len(s) |-> IF s[i] = "\\" THEN "/" ELSE s[i]]

DotJson == <<".", "j", "s", "o", "n">>
AssetsSlash == <<"a", "s", "s", "e", "t", "s", "/">>
ImportScheme == <<"i", "m", "p", "o", "r", "t", ":", "/", "/">>

(***************************************************************************)
(* AssetLibrary: the pure methods.                                         *)
(***************************************************************************)
\* AssetLibrary.getLibUrlNoExt (uuid, inRawAssetsDir)
getLibUrlNoExt(uuid, inRawAssetsDir) ==
    LET decoded == IF build.BUILD THEN decodeUuid(uuid) ELSE uuid
        encoded == EncodeUuid(decoded)
        base == IF build.BUILD /\ inRawAssetsDir
                THEN _rawAssetsBase \o AssetsSlash
                ELSE _libraryBase
    IN  base \o Slice02(encoded) \o <<"/">> \o encoded

\* a variant of _getAssetInfoInRuntime that takes every entry of
\* _uuidToRawAsset for a raw asset, whatever its type
_getAssetInfoInRuntimeAnyType(uuid, result) ==
    LET object == IF result # Undefined THEN result ELSE FreshObject
        info == DictGet(_uuidToRawAsset, uuid)
    IN  IF info # Undefined
        THEN [object |-> object, url |-> _rawAssetsBase \o info.url, raw |-> TRUE]
        ELSE [object |-> object, url |-> getLibUrlNoExt(uuid, FALSE) \o DotJson,
              raw |-> FALSE]

\* AssetLibrary._getAssetInfoInRuntime (uuid, result): the object it
\* returns ("fresh" is the literal it creates) with its url and raw fields
_getAssetInfoInRuntime(uuid, result) ==
    LET object == IF result # Undefined THEN result ELSE FreshObject
        info == DictGet(_uuidToRawAsset, uuid)
    IN  IF info # Undefined /\ ~isChildClassOfAsset(info.type)
        THEN [object |-> object, url |-> _rawAssetsBase \o info.url, raw |-> TRUE]
        ELSE [object |-> object, url |-> getLibUrlNoExt(uuid, FALSE) \o DotJson,
              raw |-> FALSE]

\* AssetLibrary._uuidInSettings (uuid)
_uuidInSettings(uuid) == uuid \in DOMAIN _uuidToRawAsset

\* AssetLibrary.getAssetByUuid (uuid)
getAssetByUuid(uuid) ==
    LET found == PlainGet(_uuidToAsset, uuid)
    IN  IF found = Undefined THEN Null ELSE found

\* a variant of LoadAssetError that, like loadJson, tests the error alone
LoadAssetErrorIgnoringAsset(error, asset) ==
    IF error # Null
    THEN Err("[AssetLibrary] loading JSON or dependencies failed: " \o error.message)
    ELSE error

\* the error loadAsset's completion handler hands to the callback
LoadAssetError(error, asset) ==
    IF error # Null \/ asset = Null
    THEN Err("[AssetLibrary] loading JSON or dependencies failed: "
             \o (IF error # Null THEN error.message ELSE "Unknown error"))
    ELSE error

\* the error loadJson's completion handler hands to the callback
LoadJsonError(error) ==
    IF error # Null
    THEN Err("[AssetLibrary] loading JSON or dependencies failed: " \o error.message)
    ELSE error

(***************************************************************************)
(* AssetLibrary: the state after the module is loaded.                     *)
(***************************************************************************)
RequestIds == 1 .. MaxRequests
NoQuery == [op |-> "none"]

InitLibrary ==
    /\ _libraryBase = <<>>
    /\ _rawAssetsBase = <<>>
    /\ _uuidToRawAsset = EmptyMap
    /\ _uuidToAsset = EmptyMap
    /\ loading = {}
    /\ tickQueue = <<>>
    /\ removedItems = {}
    /\ clearedUuid = {}
    /\ assetTables = {}
    /\ editorPending = {}
    /\ requests = <<>>
    /\ completions = [id \in RequestIds |-> <<>>]
    /\ calls = [id \in RequestIds |-> <<>>]
    /\ threw = {}
    /\ offered = EmptyMap
    /\ lastQuery = NoQuery

(***************************************************************************)
(* AssetLibrary.loadAsset and loadJson, and the loader completing them.    *)
(***************************************************************************)
\* a variant of loadAsset whose uuid check does not return
loadAssetWithoutReturn(uuid, hasCallback, options) ==
    LET id == Len(requests) + 1
    IN  /\ id <= MaxRequests
        /\ requests' = Append(requests, [op |-> "loadAsset", uuid |-> uuid,
                                         cb |-> hasCallback, options |-> options])
        /\ tickQueue' = IF uuid.type # "string"
                        THEN callInNextTick(tickQueue, id, hasCallback,
                                 Err("[AssetLibrary] uuid must be string"), Null)
                        ELSE tickQueue
        /\ loading' = loading \cup {id}
        /\ lastQuery' = NoQuery
        /\ UNCHANGED <<build, _libraryBase, _rawAssetsBase, _uuidToRawAsset,
                       _uuidToAsset, removedItems, clearedUuid, assetTables,
                       editorPending, completions, calls, threw, offered>>
        /\ UNCHANGED viewVars

\* loadAsset (uuid, callback, options)
loadAsset(uuid, hasCallback, options) ==
    LET id == Len(requests) + 1
    IN  /\ id <= MaxRequests
        /\ requests' = Append(requests, [op |-> "loadAsset", uuid |-> uuid,
                                         cb |-> hasCallback, options |-> options])
        /\ IF uuid.type # "string"
           THEN /\ tickQueue' = callInNextTick(tickQueue, id, hasCallback,
                                    Err("[AssetLibrary] uuid must be string"), Null)
                /\ UNCHANGED loading
           ELSE /\ loading' = loading \cup {id}        \* legacyCC.loader.load
                /\ UNCHANGED tickQueue
        /\ lastQuery' = NoQuery
        /\ UNCHANGED <<build, _libraryBase, _rawAssetsBase, _uuidToRawAsset,
                       _uuidToAsset, removedItems, clearedUuid, assetTables,
                       editorPending, completions, calls, threw, offered>>
        /\ UNCHANGED viewVars

\* loadJson (json, callback)
loadJson(hasCallback) ==
    LET id == Len(requests) + 1
    IN  /\ id <= MaxRequests
        /\ requests' = Append(requests, [op |-> "loadJson", uuid |-> Str(<<"0", ".", "5">>),
                                         cb |-> hasCallback, options |-> "default"])
        /\ loading' = loading \cup {id}                \* legacyCC.loader.load
        /\ lastQuery' = NoQuery
        /\ UNCHANGED <<build, _libraryBase, _rawAssetsBase, _uuidToRawAsset,
                       _uuidToAsset, tickQueue, removedItems, clearedUuid,
                       assetTables, editorPending, completions, calls, threw,
                       offered>>
        /\ UNCHANGED viewVars

\* the completion handler loadAsset gave the loader
loadAssetDone(id, error, asset) ==
    /\ calls' = IF requests[id].cb
                THEN [calls EXCEPT ![id] = Append(@, [error |-> LoadAssetError(error, asset),
                                                      asset |-> asset])]
                ELSE calls
    /\ UNCHANGED <<removedItems, clearedUuid, threw>>

\* the completion handler loadJson gave the loader
loadJsonDone(id, error, asset) ==
    /\ removedItems' = IF error = Null /\ (build.EDITOR \/ isScene(asset))
                       THEN removedItems \cup {id}
                       ELSE removedItems
    /\ IF asset = Null
       THEN \* asset._uuid = '' throws a TypeError
            /\ threw' = threw \cup {id}
            /\ UNCHANGED <<clearedUuid, calls>>
       ELSE /\ clearedUuid' = clearedUuid \cup {asset}
            /\ calls' = IF requests[id].cb
                        THEN [calls EXCEPT ![id] = Append(@, [error |-> LoadJsonError(error),
                                                              asset |-> asset])]
                        ELSE calls
            /\ UNCHANGED threw

\* the loader completes a load and calls the handler it was given
LoaderComplete(id, error, asset) ==
    /\ id \in loading
    /\ loading' = loading \ {id}
    /\ completions' = [completions EXCEPT ![id] = <<[error |-> error, asset |-> asset]>>]
    /\ IF requests[id].op = "loadAsset"
       THEN loadAssetDone(id, error, asset)
       ELSE loadJsonDone(id, error, asset)
    /\ lastQuery' = NoQuery
    /\ UNCHANGED <<build, _libraryBase, _rawAssetsBase, _uuidToRawAsset,
                   _uuidToAsset, tickQueue, assetTables, editorPending,
                   requests, offered>>
    /\ UNCHANGED viewVars

\* the next tick: the oldest call callInNextTick scheduled runs
NextTick ==
    /\ tickQueue # <<>>
    /\ tickQueue' = Tail(tickQueue)
    /\ calls' = [calls EXCEPT ![Head(tickQueue).id] =
                     Append(@, [error |-> Head(tickQueue).error,
                                asset |-> Head(tickQueue).asset])]
    /\ lastQuery' = NoQuery
    /\ UNCHANGED <<build, _libraryBase, _rawAssetsBase, _uuidToRawAsset,
                   _uuidToAsset, loading, removedItems, clearedUuid,
                   assetTables, editorPending, requests, completions, threw,
                   offered>>
    /\ UNCHANGED viewVars

(***************************************************************************)
(* AssetLibrary.init and the queries.                                      *)
(***************************************************************************)
\* the rawAssets loop of init: entries in for-in order
RECURSIVE RegisterRawAssets(_, _)
RegisterRawAssets(map, entries) ==
    IF entries = <<>> THEN map
    ELSE LET info == Head(entries)
             type == _getClassById(info.typeId)
         IN  IF type = "none"
             THEN RegisterRawAssets(map, Tail(entries))
             ELSE RegisterRawAssets(
                      MapSet(map, info.uuid,
                             [url |-> info.mountPoint \o <<"/">> \o info.url,
                              type |-> type]),
                      Tail(entries))

\* the asset table entries the same loop adds
AddedToTables(entries) ==
    {[mountPoint |-> entries[i].mountPoint, url |-> entries[i].url,
      uuid |-> entries[i].uuid, type |-> _getClassById(entries[i].typeId),
      main |-> ~entries[i].isSubAsset] :
        i \in {j \in 1 .. Len(entries) : _getClassById(entries[j].typeId) # "none"}}

\* what the caller offered: the last entry with a known class, by uuid
RECURSIVE Offer(_, _)
Offer(map, entries) ==
    IF entries = <<>> THEN map
    ELSE Offer(IF _getClassById(Head(entries).typeId) = "none"
               THEN map
               ELSE MapSet(map, Head(entries).uuid, Head(entries)),
               Tail(entries))

\* init (options), for options without md5AssetsMap, subPackages and
\* packedAssets
init(options) ==
    /\ IF build.EDITOR /\ _libraryBase # <<>>
       THEN UNCHANGED <<_libraryBase, _rawAssetsBase, _uuidToRawAsset, assetTables>>
       ELSE /\ _libraryBase' =
                   stripSep(ReplaceBackslashes(options.libraryPath)) \o <<"/">>
            /\ _rawAssetsBase' = options.rawAssetsBase
            /\ _uuidToRawAsset' = RegisterRawAssets(_uuidToRawAsset, options.rawAssets)
            /\ assetTables' = AddedToTables(options.rawAssets)
    /\ offered' = Offer(offered, options.rawAssets)
    /\ lastQuery' = NoQuery
    /\ UNCHANGED <<build, _uuidToAsset, loading, tickQueue, removedItems,
                   clearedUuid, editorPending, requests, completions, calls,
                   threw>>
    /\ UNCHANGED viewVars

\* queryAssetInfo (uuid, callback)
queryAssetInfo(uuid) ==
    /\ IF build.EDITOR /\ ~build.TEST
       THEN \* _queryAssetInfoInEditor: EditorExtends answers later
            /\ editorPending' = editorPending \cup {uuid}
            /\ lastQuery' = [op |-> "queryAssetInfo", uuid |-> uuid, calls |-> <<>>]
       ELSE LET info == _getAssetInfoInRuntime(uuid, Undefined)
            IN  /\ lastQuery' = [op |-> "queryAssetInfo", uuid |-> uuid,
                                 calls |-> <<[error |-> Null, url |-> info.url,
                                              raw |-> info.raw]>>]
                /\ UNCHANGED editorPending
    /\ UNCHANGED <<build, _libraryBase, _rawAssetsBase, _uuidToRawAsset,
                   _uuidToAsset, loading, tickQueue, removedItems, clearedUuid,
                   assetTables, requests, completions, calls, threw, offered>>
    /\ UNCHANGED viewVars

\* EditorExtends.Asset.queryAssetInfo answers: an error, or the info of an
\* asset whose type names an Asset class, another class, or no class
EditorReply(uuid, answer) ==
    /\ uuid \in editorPending
    /\ editorPending' = editorPending \ {uuid}
    /\ lastQuery' =
           [op |-> "editorReply", uuid |-> uuid,
            calls |-> <<CASE answer = "error" ->
                               [error |-> [tag |-> "Error", errorCode |-> "db.NOTFOUND"]]
                          [] answer = "noClass" ->
                               [error |-> Err("Can not find asset type ")]
                          [] OTHER ->
                               [error |-> Null,
                                url |-> ImportScheme \o Slice02(uuid) \o <<"/">>
                                            \o uuid \o DotJson,
                                raw |-> ~isChildClassOfAsset(answer)]>>]
    /\ UNCHANGED <<build, _libraryBase, _rawAssetsBase, _uuidToRawAsset,
                   _uuidToAsset, loading, tickQueue, removedItems, clearedUuid,
                   assetTables, requests, completions, calls, threw, offered>>
    /\ UNCHANGED viewVars

\* _getAssetInfoInRuntime (uuid, result), called with or without a result
getAssetInfo(uuid, result) ==
    /\ lastQuery' = [op |-> "_getAssetInfoInRuntime", uuid |-> uuid,
                     given |-> result,
                     returned |-> _getAssetInfoInRuntime(uuid, result)]
    /\ UNCHANGED <<build, _libraryBase, _rawAssetsBase, _uuidToRawAsset,
                   _uuidToAsset, loading, tickQueue, removedItems, clearedUuid,
                   assetTables, editorPending, requests, completions, calls,
                   threw, offered>>
    /\ UNCHANGED viewVars

(***************************************************************************)
(* Inputs of init.                                                         *)
(***************************************************************************)
LibraryPaths == {<<"l", "i", "b">>, <<"l", "\\", "b", "/">>}
RawAssetsBases == {<<"r", "/">>, <<>>}
MountAssets == <<"a", "s", "s", "e", "t", "s">>
MountInternal == <<"i", "n", "t">>
RawEntries ==
    {[mountPoint |-> MountAssets, uuid |-> UuidAbc, url |-> <<"t", ".", "p">>,
      typeId |-> "cc.RawFile", isSubAsset |-> FALSE],
     [mountPoint |-> MountAssets, uuid |-> UuidSub, url |-> <<"s">>,
      typeId |-> "cc.Texture2D", isSubAsset |-> TRUE],
     [mountPoint |-> MountInternal, uuid |-> UuidAbc, url |-> <<"u">>,
      typeId |-> "cc.Asset", isSubAsset |-> FALSE],
     [mountPoint |-> MountInternal, uuid |-> UuidValueOf, url |-> <<"v">>,
      typeId |-> "zz", isSubAsset |-> FALSE]}

\* rawAssets in for-in order: each entry once, the entries of one mount
\* point together
RawAssetsOrders ==
    UNION {{s \in [1 .. n -> RawEntries] :
               /\ \A i, j \in 1 .. n : i # j => s[i] # s[j]
               /\ \A i, j, k \in 1 .. n :
                      i < j /\ j < k /\ s[i].mountPoint = s[k].mountPoint
                          => s[j].mountPoint = s[i].mountPoint} :
           n \in 0 .. MaxRaw}

InitOptions ==
    [libraryPath : LibraryPaths, rawAssetsBase : RawAssetsBases,
     rawAssets : RawAssetsOrders]

(***************************************************************************)
(* Specifications.                                                         *)
(***************************************************************************)
\* the view as it is while the library is exercised
InitViewIdle ==
    /\ InitView
    /\ adapter = "full"
    /\ now = 0
    /\ _fps = 1000
    /\ _designResolutionSize = <<2, 3>>
    /\ nodeSize = <<FromInt(2), FromInt(3)>>
    /\ contentSize = <<FromInt(2), FromInt(3)>>

\* the library as it is while the view is exercised
InitLibraryIdle ==
    /\ build = [EDITOR |-> FALSE, TEST |-> FALSE, BUILD |-> TRUE]
    /\ InitLibrary

\* ---- the timer of the view: one node size, the clock runs ----
InitTimer ==
    /\ nodeSize = <<FromInt(2), FromInt(3)>>
    /\ contentSize = <<FromInt(2), FromInt(3)>>
    /\ InitView
    /\ InitLibraryIdle

NextTimer ==
    \/ onLoad
    \/ onEnable
    \/ onDisable
    \/ \E value \in FpsValues : SetFps(value)
    \/ \E d \in 1 .. MaxStep : Tick(d)
    \/ \E size \in CanvasSizes : CanvasResize(size)
    \/ \E d \in 1 .. MaxStep : UpdateFrame(d)
    \/ UpdateManual

SpecTimer == InitTimer /\ [][NextTimer]_vars

\* ---- the scaling of the view: the clock stands, the node is resized ----
InitScale ==
    /\ now = 0
    /\ _fps = 1000
    /\ _designResolutionSize = <<2, 3>>
    /\ InitView
    /\ InitLibraryIdle

NextScale ==
    \/ onLoad
    \/ onEnable
    \/ onDisable
    \/ \E size \in FSizes : NodeSizeChanged(size)
    \/ NodeTransformChanged

SpecScale == InitScale /\ [][NextScale]_vars

\* ---- the library loading assets ----
InitLoad ==
    /\ InitViewIdle
    /\ build \in Builds
    /\ InitLibrary

NextLoad ==
    \/ \E uuid \in {Str(UuidAbc), Str(UuidValueOf), NotAString},
          hasCallback \in BOOLEAN, options \in {"default", "existingAsset"} :
              loadAsset(uuid, hasCallback, options)
    \/ \E hasCallback \in BOOLEAN : loadJson(hasCallback)
    \/ \E id \in RequestIds, error \in LoaderErrors \cup {Null},
          asset \in Assets \cup {Null} : LoaderComplete(id, error, asset)
    \/ NextTick

SpecLoad == InitLoad /\ [][NextLoad]_vars

\* ---- the library answering queries ----
InitQuery ==
    /\ InitViewIdle
    /\ build \in Builds
    /\ InitLibrary

NextQuery ==
    \/ \E options \in InitOptions : init(options)
    \/ \E uuid \in Uuids : queryAssetInfo(uuid)
    \/ \E uuid \in Uuids, answer \in {"error", "noClass", "Texture2D", "RawFile"} :
          EditorReply(uuid, answer)
    \/ \E uuid \in Uuids, result \in {Undefined, GivenObject} : getAssetInfo(uuid, result)

SpecQuery == InitQuery /\ [][NextQuery]_vars

(***************************************************************************)
(* Claims about SubContextView.                                            *)
(***************************************************************************)

\* C1: any two consecutive uploads performed by frame-driven update(dt)
\* calls under one fps setting are at least 1000 / fps ms of the clock
\* apart.
C1_FrameUploadsSpaced ==
    Len(frameUploads) = 2 =>
        frameUploads[2][1] - frameUploads[1][1] >= frameUploads[2][2]

\* C7: after _updateSubContextView has run the content lies in the node's
\* box (width <= node width, height <= node height), touches it in one
\* dimension, and has kept its width : height ratio.
C7_ShowAll ==
    lastView.ran =>
        /\ FLe(contentSize[1], nodeSize[1])
        /\ FLe(contentSize[2], nodeSize[2])
        /\ FEq(contentSize[1], nodeSize[1]) \/ FEq(contentSize[2], nodeSize[2])
        /\ SameRatio(contentSize[1], contentSize[2],
                     lastView.before[1], lastView.before[2])

\* m1 * 2^e1 <= m2 * 2^e2 for positive integers m1, m2 within a factor of
\* 16 of each other
ScaledLe(m1, e1, m2, e2) ==
    IF e1 >= e2
    THEN e1 - e2 <= 4 /\ m1 * Pow2(e1 - e2) <= m2
    ELSE e2 - e1 > 4 \/ m1 <= m2 * Pow2(e2 - e1)

\* with u = 2^(-Precision), the unit roundoff:  x <= y * (1 + u)^2
AtMostRounded(x, y) ==
    ScaledLe(x[1] * MantHi * MantHi, x[2], y[1] * (MantHi + 1) * (MantHi + 1), y[2])

\* x >= y * (1 - u)^2
AtLeastRounded(x, y) ==
    ScaledLe(y[1] * (MantHi - 1) * (MantHi - 1), y[2], x[1] * MantHi * MantHi, x[2])

\* (w1 / h1) * (1 - u) <= (w2 / h2) * (1 + u)
RatioAtMostRounded(w1, h1, w2, h2) ==
    ScaledLe(w1[1] * h2[1] * (MantHi - 1), w1[2] + h2[2],
             w2[1] * h1[1] * (MantHi + 1), w2[2] + h1[2])

\* C7 as amended: after _updateSubContextView has run, each content
\* dimension is at most the node's times (1 + u)^2, one of them is at least
\* the node's times (1 - u)^2, and the width : height ratio is the one before
\* the call within a factor (1 + u) / (1 - u), u being the unit roundoff.
C7_ShowAllRounded ==
    lastView.ran =>
        /\ AtMostRounded(contentSize[1], nodeSize[1])
        /\ AtMostRounded(contentSize[2], nodeSize[2])
        /\ \/ AtLeastRounded(contentSize[1], nodeSize[1])
           \/ AtLeastRounded(contentSize[2], nodeSize[2])
        /\ RatioAtMostRounded(contentSize[1], contentSize[2],
                              lastView.before[1], lastView.before[2])
        /\ RatioAtMostRounded(lastView.before[1], lastView.before[2],
                              contentSize[1], contentSize[2])

\* C7's case: the call has run and left the content higher than the node
C7_Witness ==
    /\ lastView.ran
    /\ FGt(contentSize[2], nodeSize[2])

\* the first part of C7 alone: the content lies in the node's box
C7_FitsBox ==
    lastView.ran =>
        /\ FLe(contentSize[1], nodeSize[1])
        /\ FLe(contentSize[2], nodeSize[2])

\* C8: a manual update() uploads exactly when an open data context exists
\* and the image has positive width and height, however little time has
\* passed, and leaves _updatedTime and _updateInterval as they were.
C8_ManualUpdate ==
    lastCall.op = "manual" =>
        /\ lastCall.timerKept
        /\ lastCall.uploaded <=>
               (/\ _openDataContext
                /\ ImageSize(image, canvas)[1] > 0
                /\ ImageSize(image, canvas)[2] > 0)

\* C8's case: a manual update uploaded although less than one interval
\* has passed since _updatedTime.
C8_Witness ==
    /\ lastCall.op = "manual"
    /\ lastCall.uploaded
    /\ _updateInterval > 0
    /\ now - _updatedTime < _updateInterval

(***************************************************************************)
(* Claims about AssetLibrary.                                              *)
(***************************************************************************)
Made == 1 .. Len(requests)
Succeeded(id) ==
    /\ completions[id] # <<>>
    /\ completions[id][1].error = Null
    /\ completions[id][1].asset # Null

\* C2 (first sentence): once a loadAsset with default options has
\* completed with no error and an asset, getAssetByUuid of its uuid returns
\* that asset.
C2_LoadedIsCached ==
    \A id \in Made :
        (/\ requests[id].op = "loadAsset"
         /\ requests[id].options = "default"
         /\ requests[id].uuid.type = "string"
         /\ Succeeded(id))
            => getAssetByUuid(requests[id].uuid.chars) = completions[id][1].asset

\* C2 (second sentence): getAssetByUuid of a uuid that no loadAsset was
\* called with is null.
C2_NeverLoadedIsNull ==
    \A uuid \in Uuids :
        (\A id \in Made : requests[id].uuid # Str(uuid))
            => getAssetByUuid(uuid) = Null

\* C3: the callback of loadJson has run once for each completion the
\* loader reported, and when the loader reported an error it received the
\* prefixed error.
C3_LoadJsonCallsBack ==
    \A id \in Made :
        (requests[id].op = "loadJson" /\ requests[id].cb)
            => /\ Len(calls[id]) = Len(completions[id])
               /\ (completions[id] # <<>> /\ completions[id][1].error # Null)
                      => /\ calls[id] # <<>>
                         /\ calls[id][1].error =
                                Err("[AssetLibrary] loading JSON or dependencies failed: "
                                    \o completions[id][1].error.message)

\* C4: a loadAsset whose uuid is not a string never reaches the loader;
\* its callback has not run while the call callInNextTick scheduled is
\* still queued (so not when loadAsset returns), and has run exactly once,
\* with the 'uuid must be string' error and a null asset, after that.
C4_NonStringUuid ==
    \A id \in Made :
        (/\ requests[id].op = "loadAsset"
         /\ requests[id].uuid.type # "string"
         /\ requests[id].cb)
            => /\ id \notin loading
               /\ completions[id] = <<>>
               /\ IF \E i \in 1 .. Len(tickQueue) : tickQueue[i].id = id
                  THEN calls[id] = <<>>
                  ELSE calls[id] = <<[error |-> Err("[AssetLibrary] uuid must be string"),
                                      asset |-> Null]>>

\* C4's case: the deferred error has been delivered
C4_Witness ==
    \E id \in Made :
        /\ requests[id].op = "loadAsset"
        /\ requests[id].uuid.type # "string"
        /\ requests[id].cb
        /\ Len(calls[id]) = 1

\* C5: the callback of a loadAsset with a string uuid has run once per
\* completion of the loader; its error is non-null exactly when the loader
\* reported an error or no asset, and on success it received the loader's
\* asset and a null error.
C5_LoadAssetCallback ==
    \A id \in Made :
        (/\ requests[id].op = "loadAsset"
         /\ requests[id].uuid.type = "string"
         /\ requests[id].cb)
            => /\ Len(calls[id]) = Len(completions[id])
               /\ completions[id] # <<>>
                      => LET reported == completions[id][1]
                             received == calls[id][1]
                         IN  /\ received.error # Null
                                    <=> (reported.error # Null \/ reported.asset = Null)
                             /\ Succeeded(id)
                                    => /\ received.asset = reported.asset
                                       /\ received.error = Null

\* C5's cases: a success and a completion without error and without asset
C5_Witness ==
    /\ \E id \in Made :
           /\ requests[id].op = "loadAsset" /\ requests[id].cb
           /\ Succeeded(id) /\ Len(calls[id]) = 1
    /\ \E id \in Made :
           /\ requests[id].op = "loadAsset" /\ requests[id].cb
           /\ completions[id] = <<[error |-> Null, asset |-> Null]>>

\* the entry of uuid that init was last given names a class outside Asset
OfferedRaw(uuid) ==
    /\ uuid \in DOMAIN offered
    /\ ~isChildClassOfAsset(_getClassById(offered[uuid].typeId))

====
